---- MODULE Spec2Model ----
(***************************************************************************)
(* Inventory ledger of the cartridge accounting application (src/main.py,  *)
(* src/src/models.py).  Every request handler runs as one transaction on   *)
(* the shared session and commits at its end, so each handler is one       *)
(* action.  Rows are records; a table is a function from the primary key   *)
(* to the row.  Status strings are the English readings of the source's    *)
(* literals: "in_stock" = "на складе", "issued" = "выдано",                *)
(* "returned" = "возврат".  A query that ends in first() without an order  *)
(* returns whichever matching row the store yields: the action may take    *)
(* any of them.  Descriptive columns (article, names, dates, comments)     *)
(* and the note link of a movement row take no part in the ledger and are  *)
(* left out of the rows.                                                   *)
(***************************************************************************)
EXTENDS Integers, FiniteSets, Sequences, TLC

\* ---- bounds of the model ----
MaxCartridges == 1
MaxBoxes == 2
MaxQty == 2
MaxCap == 2
\* ledger operations in one behaviour, for callers that send positive quantities
MaxMoves == 5
\* ledger operations in one behaviour, for callers that send any integer
MaxMovesAny == 4
\* calendar years that go by
MaxYear == 1
MaxWarehouses == 1
MaxDepartments == 1
MaxEmployees == 1

\* ---- input domains of the form fields ----
CartridgeIds == 1..MaxCartridges
BoxIds == 1..MaxBoxes
LocationIds == 1..MaxMoves
NoteIds == 1..MaxMoves
\* quantity: int = Form(1) accepts any integer, negative and zero included
Quantities == (0 - 1)..MaxQty
\* the quantities a well-behaved caller sends
PositiveQuantities == 1..MaxQty
InitialQuantities == 0..MaxQty
\* add_quantity of the cartridge edit form
AddQuantities == 0..1
Capacities == 1..MaxCap
WarehouseIds == 1..MaxWarehouses
DepartmentIds == 1..MaxDepartments
EmployeeIds == 1..MaxEmployees
\* department_id: int = Form(None); 0 stands for None
DepartmentRefs == 0..MaxDepartments

VARIABLES
    cartridges,   \* table cartridges: id -> [initial_quantity, total_quantity]
    boxes,        \* table boxes: id -> [warehouse_id, capacity, current_count]
    warehouses,   \* table warehouses: the ids of its rows
    departments,  \* table departments: the ids of its rows
    employees,    \* table employees: id -> [department_id]
    requests,     \* the requests the server has accepted and not answered yet
    locations,    \* table cartridge_locations: id -> [cartridge_id, box_id, status, quantity]
    notes,        \* table service_notes, in id order: <<[note_number, created_year, recipient_id, cartridge_id, box_id, quantity, status]>>
    movements,    \* table cartridge_movements, in id order
    response,     \* the handler that ran last and the outcome it answered with
    clock,        \* the calendar year read by datetime.now() and by datetime.utcnow()
    last_issue,   \* history: what the latest Issue found, kept while only its Return follows
    last_return   \* history: what the first of the latest run of Returns of one note found

vars == <<cartridges, boxes, locations, notes, movements, response, clock, last_issue, last_return,
          warehouses, departments, employees, requests>>

\* ---- helpers ----
RECURSIVE SetMax(_)
SetMax(S) ==
    LET x == CHOOSE y \in S : TRUE
    IN  IF S = {x} THEN x
        ELSE LET m == SetMax(S \ {x}) IN IF x > m THEN x ELSE m

\* autoincrement primary key of a new row
NextId(table) == IF DOMAIN table = {} THEN 1 ELSE SetMax(DOMAIN table) + 1

Max0(n) == IF n > 0 THEN n ELSE 0

RECURSIVE SumQuantity(_, _)
SumQuantity(table, ids) ==
    IF ids = {} THEN 0
    ELSE LET i == CHOOSE j \in ids : TRUE
         IN  table[i].quantity + SumQuantity(table, ids \ {i})

\* cartridge.locations: the rows of the cartridge, whatever their status
LocationsOf(c) == {l \in DOMAIN locations : locations[l].cartridge_id = c}

\* current_distributed = sum(loc.quantity for loc in cartridge.locations if loc.quantity)
Distributed(c) == SumQuantity(locations, LocationsOf(c))

\* available = (cartridge.total_quantity or 0) - current_distributed
Available(c) == cartridges[c].total_quantity - Distributed(c)

\* free_space = box.capacity - (box.current_count or 0)
FreeSpace(b) == boxes[b].capacity - boxes[b].current_count

Answer(op, res) == [op |-> op, res |-> res]

\* a movement row written without the key of its cartridge
Movement_noCartridge(c, from, to) == [cartridge_id |-> 0, from_location |-> from, to_location |-> to]

Movement(c, from, to) == [cartridge_id |-> c, from_location |-> from, to_location |-> to]

BoxLabel(b) == IF b \in DOMAIN boxes THEN <<"box", b>> ELSE <<"warehouse">>

NoIssue == [note |-> 0]
NoReturn == [note |-> 0]
NoRequests == [inflight |-> <<>>, before |-> <<>>]

Init ==
    /\ cartridges = <<>>
    /\ boxes = <<>>
    /\ locations = <<>>
    /\ notes = <<>>
    /\ movements = <<>>
    /\ response = Answer("none", "ok")
    /\ clock = [local |-> 0, utc |-> 0]
    /\ last_issue = NoIssue
    /\ last_return = NoReturn
    /\ warehouses = {}
    /\ departments = {}
    /\ employees = <<>>
    /\ requests = NoRequests

\* ---- catalog ----
create_cartridge(qty) ==
    /\ cartridges' = cartridges @@
          (NextId(cartridges) :> [initial_quantity |-> qty, total_quantity |-> qty])
    /\ response' = Answer("create_cartridge", "ok")
    /\ UNCHANGED <<boxes, locations, notes, movements>>

edit_cartridge(c, add_qty) ==
    /\ IF c \notin DOMAIN cartridges
       THEN /\ response' = Answer("edit_cartridge", "NotFound")
            /\ UNCHANGED cartridges
       ELSE /\ cartridges[c].initial_quantity + add_qty <= MaxQty   \* bound of the model
            /\ cartridges' = IF add_qty > 0
                             THEN [cartridges EXCEPT ![c].initial_quantity = @ + add_qty,
                                                     ![c].total_quantity = @ + add_qty]
                             ELSE cartridges
            /\ response' = Answer("edit_cartridge", "ok")
    /\ UNCHANGED <<boxes, locations, notes, movements>>

create_box(w, capacity) ==
    /\ Cardinality(DOMAIN boxes) < MaxBoxes
    /\ boxes' = boxes @@
          (NextId(boxes) :> [warehouse_id |-> w, capacity |-> capacity, current_count |-> 0])
    /\ response' = Answer("create_box", "ok")
    /\ UNCHANGED <<cartridges, locations, notes, movements>>

edit_box(b, w, capacity) ==
    /\ IF b \notin DOMAIN boxes
       THEN /\ response' = Answer("edit_box", "NotFound")
            /\ UNCHANGED boxes
       ELSE /\ boxes' = [boxes EXCEPT ![b].warehouse_id = w, ![b].capacity = capacity]
            /\ response' = Answer("edit_box", "ok")
    /\ UNCHANGED <<cartridges, locations, notes, movements>>

\* ---- ledger ----
\* rows matching the filter of add_cartridge_to_stock: same cartridge and box, in stock
ReceiveRows(c, b) ==
    {l \in DOMAIN locations : /\ locations[l].cartridge_id = c
                              /\ locations[l].box_id = b
                              /\ locations[l].status = "in_stock"}

ReceiveOutcome_noBoxCheck(c, b, q) ==
    IF c \notin DOMAIN cartridges THEN "NotFound"
    ELSE IF q > Available(c) THEN "InsufficientStock"
    ELSE IF b \notin DOMAIN boxes THEN "NotFound"
    ELSE "ok"

ReceiveOutcome_noStockCheck(c, b, q) ==
    IF c \notin DOMAIN cartridges THEN "NotFound"
    ELSE IF b \notin DOMAIN boxes THEN "NotFound"
    ELSE IF q > FreeSpace(b) THEN "BoxFull"
    ELSE "ok"

\* the checks of add_cartridge_to_stock, in the order the handler makes them
ReceiveOutcome(c, b, q) ==
    IF c \notin DOMAIN cartridges THEN "NotFound"
    ELSE IF q > Available(c) THEN "InsufficientStock"
    ELSE IF b \notin DOMAIN boxes THEN "NotFound"
    ELSE IF q > FreeSpace(b) THEN "BoxFull"
    ELSE "ok"

\* location.quantity += quantity
ReceiveInto(row, q) == [row EXCEPT !.quantity = @ + q]

BoxAfterReceive_one(box, q) == [box EXCEPT !.current_count = @ + 1]

\* box.current_count += quantity
BoxAfterReceive(box, q) == [box EXCEPT !.current_count = @ + q]

add_cartridge_to_stock(c, b, q) ==
    LET res == ReceiveOutcome(c, b, q) IN
    /\ response' = Answer("add_cartridge_to_stock", res)
    /\ IF res # "ok"
       THEN UNCHANGED <<cartridges, boxes, locations, notes, movements>>
       ELSE /\ Len(movements) < MaxMoves   \* bound of the model
            /\ IF ReceiveRows(c, b) # {}
               THEN \E l \in ReceiveRows(c, b) :
                       locations' = [locations EXCEPT ![l] = ReceiveInto(@, q)]
               ELSE locations' = locations @@
                       (NextId(locations) :> [cartridge_id |-> c, box_id |-> b,
                                              status |-> "in_stock", quantity |-> q])
            /\ boxes' = [boxes EXCEPT ![b] = BoxAfterReceive(@, q)]
            /\ movements' = Append(movements, Movement(c, <<"intake">>, BoxLabel(b)))
            /\ UNCHANGED <<cartridges, notes>>

\* str(n): the decimal digits of n
RECURSIVE Str(_)
Str(n) == IF n < 10 THEN <<n>> ELSE Append(Str(n \div 10), n % 10)

\* digits.zfill(width)
RECURSIVE Zfill(_, _)
Zfill(digits, width) ==
    IF Len(digits) >= width THEN digits ELSE Zfill(<<0>> \o digits, width)

\* the notes whose created_date (default datetime.utcnow) lies in the year
NotesOfYear(year) == {n \in DOMAIN notes : notes[n].created_year = year}

\* "КАРТ-<year>-<seq>": the year of datetime.now() and the zero-padded count + 1
generate_note_number ==
    LET year == clock.local
        count == Cardinality(NotesOfYear(year))
    IN  [year |-> year, seq |-> Zfill(Str(count + 1), 3)]

\* a note left to the column default of ServiceNote.status
Note_defaultStatus(r, c, b, q) ==
    [note_number |-> generate_note_number, created_year |-> clock.utc, recipient_id |-> r,
     cartridge_id |-> c, box_id |-> b, quantity |-> q, status |-> "requested"]

\* ServiceNote row as create_service_note builds it (status="выдано")
Note(r, c, b, q) ==
    [note_number |-> generate_note_number, created_year |-> clock.utc, recipient_id |-> r,
     cartridge_id |-> c, box_id |-> b, quantity |-> q, status |-> "issued"]

\* rows matching the filter of create_service_note: in stock, quantity >= requested
IssueRows(c, q) ==
    {l \in DOMAIN locations : /\ locations[l].cartridge_id = c
                              /\ locations[l].status = "in_stock"
                              /\ locations[l].quantity >= q}

\* a first() that ignores the ordering by quantity
IssueCandidates_any(c, q) == IssueRows(c, q)

\* order_by(quantity.desc()).first(): a row of the largest quantity (ties are the store's choice)
IssueCandidates(c, q) ==
    {l \in IssueRows(c, q) : \A m \in IssueRows(c, q) : locations[m].quantity <= locations[l].quantity}

\* the checks of create_service_note without the test of total_quantity
IssueOutcome_noTotalCheck(c, q) ==
    IF IssueRows(c, q) = {} THEN "InsufficientStock"
    ELSE IF \E n \in DOMAIN notes : notes[n].note_number = generate_note_number
         THEN "IntegrityError"
    ELSE "ok"

\* the checks of create_service_note; note_number is unique (models.py), so the
\* insert of a number already stored raises and nothing is committed
IssueOutcome(c, q) ==
    IF IssueRows(c, q) = {} THEN "InsufficientStock"
    ELSE IF c \notin DOMAIN cartridges \/ cartridges[c].total_quantity < q THEN "InsufficientStock"
    ELSE IF \E n \in DOMAIN notes : notes[n].note_number = generate_note_number
         THEN "IntegrityError"
    ELSE "ok"

\* location.quantity -= quantity; if location.quantity <= 0: location.status = "выдано"
IssueFrom(row, q) ==
    [row EXCEPT !.quantity = @ - q,
                !.status = IF row.quantity - q <= 0 THEN "issued" ELSE @]

\* an Issue that leaves the total alone (what the pair Issue, Return would need to restore it)
TotalAfterIssue_kept(total, q) == total

\* cartridge.total_quantity = max(0, (cartridge.total_quantity or 0) - quantity)
TotalAfterIssue(total, q) == Max0(total - q)

\* box.current_count = max(0, box.current_count - quantity)
BoxAfterIssue(box, q) == [box EXCEPT !.current_count = Max0(@ - q)]

\* what the Issue found before it wrote: the row it draws from, its box and the counts
IssueSeen(n, c, l) ==
    [note |-> n, returned |-> FALSE, location |-> l, box |-> locations[l].box_id,
     quantity |-> locations[l].quantity,
     current_count |-> IF locations[l].box_id \in DOMAIN boxes
                       THEN boxes[locations[l].box_id].current_count ELSE 0,
     total |-> cartridges[c].total_quantity]

\* f"Сотрудник: {recipient.full_name}" if recipient else "Выдано"
RecipientLabel(r) == IF r \in DOMAIN employees THEN <<"employee", r>> ELSE <<"issued">>

\* whether the store rejects a row whose foreign key matches no row. The columns are
\* declared ForeignKey(...) in models.py; the engine that would enforce them is built in
\* src/database.py. The referential checks are "performed in the application layer
\* rather than by foreign-key constraints": the store enforces none
ForeignKeysEnforced == FALSE

\* db.commit() of a note whose recipient_id matches no employee, on a store that enforces
\* the foreign key: the insert raises and nothing is committed
RecipientRefused(r) == ForeignKeysEnforced /\ r \notin DOMAIN employees

create_service_note(r, c, q) ==
    LET res == IF IssueOutcome(c, q) = "ok" /\ RecipientRefused(r)
               THEN "IntegrityError"
               ELSE IssueOutcome(c, q)
    IN
    /\ response' = Answer("create_service_note", res)
    /\ UNCHANGED clock
    /\ last_return' = NoReturn
    /\ IF res # "ok"
       THEN /\ UNCHANGED <<cartridges, boxes, locations, notes, movements>>
            /\ last_issue' = NoIssue
       ELSE /\ Len(movements) < MaxMoves
            /\ \E l \in IssueCandidates(c, q) :
                  LET b == locations[l].box_id IN
                  /\ notes' = Append(notes, Note(r, c, b, q))
                  /\ locations' = [locations EXCEPT ![l] = IssueFrom(@, q)]
                  /\ cartridges' = [cartridges EXCEPT ![c].total_quantity = TotalAfterIssue(@, q)]
                  /\ boxes' = IF b \in DOMAIN boxes
                              THEN [boxes EXCEPT ![b] = BoxAfterIssue(@, q)]
                              ELSE boxes
                  /\ movements' = Append(movements, Movement(c, BoxLabel(b), RecipientLabel(r)))
                  /\ last_issue' = IssueSeen(Len(notes) + 1, c, l)

\* rows matching the filter of return_cartridge: same cartridge and box, any status
ReturnRows(c, b) ==
    {l \in DOMAIN locations : /\ locations[l].cartridge_id = c
                              /\ locations[l].box_id = b}

\* location.quantity += note.quantity, whatever the note's status: a Return that
\* credited a note once only
ReturnCredit_once(note) == IF note.status = "returned" THEN 0 ELSE note.quantity

\* location.quantity += note.quantity; box.current_count += note.quantity
ReturnCredit(note) == note.quantity

\* what the Return of note n found before it wrote: the quantity lying at the note's
\* (cartridge, box) and the box's current_count
ReturnSeen(n) ==
    LET c == notes[n].cartridge_id
        b == notes[n].box_id
    IN  [note |-> n, times |-> 1,
         quantity |-> SumQuantity(locations, ReturnRows(c, b)),
         current_count |-> IF b \in DOMAIN boxes THEN boxes[b].current_count ELSE 0]

return_cartridge(n) ==
    IF n \notin DOMAIN notes
    THEN /\ response' = Answer("return_cartridge", "NotFound")
         /\ UNCHANGED <<cartridges, boxes, locations, notes, movements, clock>>
         /\ last_issue' = NoIssue
         /\ last_return' = NoReturn
    ELSE LET note == notes[n]
             c == note.cartridge_id
             b == note.box_id
         IN  /\ Len(movements) < MaxMoves
             /\ UNCHANGED clock
             /\ last_issue' = IF last_issue.note = n /\ ~last_issue.returned
                              THEN [last_issue EXCEPT !.returned = TRUE]
                              ELSE NoIssue
             /\ last_return' = IF last_return.note = n
                               THEN [last_return EXCEPT !.times = @ + 1]
                               ELSE ReturnSeen(n)
             /\ response' = Answer("return_cartridge", "ok")
             /\ notes' = [notes EXCEPT ![n].status = "returned"]
             /\ IF ReturnRows(c, b) # {}
                THEN \E l \in ReturnRows(c, b) :
                        locations' = [locations EXCEPT ![l].quantity = @ + ReturnCredit(note),
                                                       ![l].status = "in_stock"]
                ELSE locations' = locations @@
                        (NextId(locations) :> [cartridge_id |-> c, box_id |-> b,
                                               status |-> "in_stock", quantity |-> ReturnCredit(note)])
             /\ boxes' = IF b \in DOMAIN boxes
                         THEN [boxes EXCEPT ![b].current_count = @ + ReturnCredit(note)]
                         ELSE boxes
             /\ movements' = Append(movements, Movement(c, <<"in_use">>, BoxLabel(b)))
             /\ UNCHANGED cartridges

\* a WithdrawOne that writes the unit off: it takes it from total_quantity as well
remove_one_from_location_writeOff(l) ==
    IF l \notin DOMAIN locations
    THEN /\ response' = Answer("remove_one_from_location", "NotFound")
         /\ UNCHANGED <<cartridges, boxes, locations, notes, movements>>
    ELSE LET row == locations[l]
             b == row.box_id
         IN  /\ Len(movements) < MaxMoves
             /\ response' = Answer("remove_one_from_location", "ok")
             /\ locations' = IF row.quantity <= 1
                             THEN [k \in DOMAIN locations \ {l} |-> locations[k]]
                             ELSE [locations EXCEPT ![l].quantity = @ - 1]
             /\ boxes' = IF b \in DOMAIN boxes /\ boxes[b].current_count > 0
                         THEN [boxes EXCEPT ![b].current_count = @ - 1]
                         ELSE boxes
             /\ movements' = Append(movements, Movement(row.cartridge_id, BoxLabel(b), <<"undistributed">>))
             /\ cartridges' = [cartridges EXCEPT ![row.cartridge_id].total_quantity = Max0(@ - 1)]
             /\ UNCHANGED notes

remove_one_from_location(l) ==
    IF l \notin DOMAIN locations
    THEN /\ response' = Answer("remove_one_from_location", "NotFound")
         /\ UNCHANGED <<cartridges, boxes, locations, notes, movements>>
    ELSE LET row == locations[l]
             b == row.box_id
         IN  /\ Len(movements) < MaxMoves
             /\ response' = Answer("remove_one_from_location", "ok")
             /\ locations' = IF row.quantity <= 1
                             THEN [k \in DOMAIN locations \ {l} |-> locations[k]]
                             ELSE [locations EXCEPT ![l].quantity = @ - 1]
             /\ boxes' = IF b \in DOMAIN boxes /\ boxes[b].current_count > 0
                         THEN [boxes EXCEPT ![b].current_count = @ - 1]
                         ELSE boxes
             /\ movements' = Append(movements, Movement(row.cartridge_id, BoxLabel(b), <<"undistributed">>))
             /\ UNCHANGED <<cartridges, notes>>

\* a handler other than Issue and Return ends the Issue-Return history; none sets the clock
Forget == last_issue' = NoIssue /\ last_return' = NoReturn /\ UNCHANGED clock

\* ---- the server: accepted requests and the event loop ----
MaxRequests == 2
\* ledger operations before the requests overlap
MaxSetupMoves == 2
RequestIds == 1..MaxRequests

RECURSIVE SumOf(_, _)
SumOf(column, ids) ==
    IF ids = {} THEN 0
    ELSE LET i == CHOOSE j \in ids : TRUE
         IN  column[i] + SumOf(column, ids \ {i})

\* a handler that gives the event loop up between its query and its commit (an await
\* in its body, or a plain def handler, which the framework runs on its thread pool)
Suspends_betweenQueryAndCommit(op) == TRUE

\* create_service_note and add_cartridge_to_stock are coroutines (async def) whose bodies
\* hold no await: the event loop of the one process that uvicorn.run(app) starts runs a
\* handler it has begun up to its return, commit included, before it begins another
Suspends(op) == FALSE

Request(op, r, c, b, q) ==
    [op |-> op, r |-> r, c |-> c, b |-> b, q |-> q, pc |-> "queued", seen |-> <<>>, res |-> "none"]

\* the stock at the moment the requests overlap
Stock ==
    [total |-> SumOf([c \in DOMAIN cartridges |-> cartridges[c].total_quantity], DOMAIN cartridges),
     count |-> SumOf([b \in DOMAIN boxes |-> boxes[b].current_count], DOMAIN boxes),
     quantity |-> SumQuantity(locations, DOMAIN locations)]

\* a request is accepted while the ones before it wait for the event loop
Arrive(op, r, c, b, q) ==
    /\ Len(requests.inflight) < MaxRequests
    /\ \A k \in DOMAIN requests.inflight : requests.inflight[k].pc = "queued"
    /\ requests' = [inflight |-> Append(requests.inflight, Request(op, r, c, b, q)),
                    before |-> Stock]
    /\ UNCHANGED <<cartridges, boxes, locations, notes, movements, response>>

Done(k, res) == requests' = [requests EXCEPT !.inflight[k].pc = "done", !.inflight[k].res = res]

\* the handler runs from its first query to its commit
Handle(k) ==
    LET req == requests.inflight[k] IN
    /\ \/ req.op = "create_service_note" /\ create_service_note(req.r, req.c, req.q)
       \/ req.op = "add_cartridge_to_stock" /\ add_cartridge_to_stock(req.c, req.b, req.q)
                                            /\ Forget
    /\ Done(k, response'.res)

\* what the session holds after the handler's queries: the outcome of its checks, the
\* row it works on (0: none) and the column values it will compute from
Loaded(req) ==
    IF req.op = "create_service_note"
    THEN LET res == IF IssueRows(req.c, req.q) = {}
                       \/ req.c \notin DOMAIN cartridges
                       \/ cartridges[req.c].total_quantity < req.q
                    THEN "InsufficientStock" ELSE "ok"
         IN  IF res # "ok" THEN {[res |-> res]}
             ELSE {[res |-> res, location |-> l, box |-> locations[l].box_id,
                    quantity |-> locations[l].quantity,
                    total |-> cartridges[req.c].total_quantity,
                    count |-> boxes[locations[l].box_id].current_count,
                    note |-> Note(req.r, req.c, locations[l].box_id, req.q)]
                   : l \in IssueCandidates(req.c, req.q)}
    ELSE LET res == ReceiveOutcome(req.c, req.b, req.q)
         IN  IF res # "ok" THEN {[res |-> res]}
             ELSE {[res |-> res, location |-> l, box |-> req.b,
                    quantity |-> IF l = 0 THEN 0 ELSE locations[l].quantity,
                    count |-> boxes[req.b].current_count]
                   : l \in IF ReceiveRows(req.c, req.b) = {} THEN {0} ELSE ReceiveRows(req.c, req.b)}

\* the handler runs its queries and gives the event loop up
Load(k) ==
    /\ \E seen \in Loaded(requests.inflight[k]) :
          requests' = [requests EXCEPT !.inflight[k].pc = "loaded", !.inflight[k].seen = seen]
    /\ UNCHANGED <<cartridges, boxes, locations, notes, movements, response>>

\* the handler resumes: the unit of work writes the values computed from what the session
\* loaded (UPDATE ... SET quantity = <value>), and the insert of a note number already
\* stored fails on the unique index and rolls the transaction back
Commit(k) ==
    LET req == requests.inflight[k]
        seen == req.seen
    IN  IF seen.res # "ok"
        THEN /\ response' = Answer(req.op, seen.res)
             /\ Done(k, seen.res)
             /\ UNCHANGED <<cartridges, boxes, locations, notes, movements>>
        ELSE IF req.op = "create_service_note"
        THEN IF \E n \in DOMAIN notes : notes[n].note_number = seen.note.note_number
             THEN /\ response' = Answer(req.op, "IntegrityError")
                  /\ Done(k, "IntegrityError")
                  /\ UNCHANGED <<cartridges, boxes, locations, notes, movements>>
             ELSE /\ response' = Answer(req.op, "ok")
                  /\ Done(k, "ok")
                  /\ notes' = Append(notes, seen.note)
                  /\ locations' = [locations EXCEPT ![seen.location] =
                                      IssueFrom([@ EXCEPT !.quantity = seen.quantity], req.q)]
                  /\ cartridges' = [cartridges EXCEPT ![req.c].total_quantity =
                                      TotalAfterIssue(seen.total, req.q)]
                  /\ boxes' = [boxes EXCEPT ![seen.box] =
                                  BoxAfterIssue([@ EXCEPT !.current_count = seen.count], req.q)]
                  /\ movements' = Append(movements,
                                     Movement(req.c, BoxLabel(seen.box), RecipientLabel(req.r)))
        ELSE /\ response' = Answer(req.op, "ok")
             /\ Done(k, "ok")
             /\ locations' = IF seen.location # 0
                             THEN [locations EXCEPT ![seen.location] =
                                      ReceiveInto([@ EXCEPT !.quantity = seen.quantity], req.q)]
                             ELSE locations @@
                                     (NextId(locations) :> [cartridge_id |-> req.c, box_id |-> req.b,
                                                            status |-> "in_stock", quantity |-> req.q])
             /\ boxes' = [boxes EXCEPT ![seen.box] =
                             BoxAfterReceive([@ EXCEPT !.current_count = seen.count], req.q)]
             /\ movements' = Append(movements, Movement(req.c, <<"intake">>, BoxLabel(seen.box)))
             /\ UNCHANGED <<cartridges, notes>>

\* the event loop takes up a request that waits for it
Serve(k) ==
    /\ Len(requests.inflight) = MaxRequests
    /\ k \in DOMAIN requests.inflight
    /\ LET req == requests.inflight[k] IN
       /\ req.pc # "done"
       /\ \A j \in DOMAIN requests.inflight : requests.inflight[j].pc = "loaded" => Suspends(requests.inflight[j].op)
       /\ IF req.pc = "queued"
          THEN IF Suspends(req.op)
               THEN Load(k) /\ Forget
               ELSE Handle(k)
          ELSE Commit(k) /\ Forget

\* ---- catalog: warehouses and the delete forms ----
NextKey(ids) == IF ids = {} THEN 1 ELSE SetMax(ids) + 1

\* the table without the rows whose key is in ids
Without(table, ids) == [k \in DOMAIN table \ ids |-> table[k]]

create_warehouse ==
    /\ Cardinality(warehouses) < MaxWarehouses
    /\ warehouses' = warehouses \cup {NextKey(warehouses)}
    /\ response' = Answer("create_warehouse", "ok")
    /\ UNCHANGED <<cartridges, boxes, locations, notes, movements, departments, employees, requests>>

NotesOfCartridge(c) == {n \in DOMAIN notes : notes[n].cartridge_id = c}
NotesOfBox(b) == {n \in DOMAIN notes : notes[n].box_id = b}
BoxesOfWarehouse(w) == {b \in DOMAIN boxes : boxes[b].warehouse_id = w}

\* a delete_cartridge that does not count the service notes
DeleteCartridgeOutcome_noNotesCheck(c) ==
    IF c \notin DOMAIN cartridges THEN "NotFound"
    ELSE IF cartridges[c].total_quantity > 0 THEN "ReferentialConflict"
    ELSE "ok"

\* the checks of delete_cartridge
DeleteCartridgeOutcome(c) ==
    IF c \notin DOMAIN cartridges THEN "NotFound"
    ELSE IF cartridges[c].total_quantity > 0 THEN "ReferentialConflict"
    ELSE IF NotesOfCartridge(c) # {} THEN "ReferentialConflict"
    ELSE "ok"

\* a delete of movement rows that lost its filter
MovementsAfterDelete_all(c) == <<>>

\* db.query(CartridgeMovement).filter(CartridgeMovement.cartridge_id == cartridge_id).delete()
MovementsAfterDelete(c) ==
    LET Kept(m) == m.cartridge_id # c IN SelectSeq(movements, Kept)

\* db.delete(cartridge) takes the cartridge's locations with it (cascade="all, delete-orphan")
delete_cartridge(c) ==
    LET res == DeleteCartridgeOutcome(c) IN
    /\ response' = Answer("delete_cartridge", res)
    /\ IF res # "ok"
       THEN UNCHANGED <<cartridges, locations, movements>>
       ELSE /\ movements' = MovementsAfterDelete(c)
            /\ cartridges' = Without(cartridges, {c})
            /\ locations' = Without(locations, LocationsOf(c))
    /\ UNCHANGED <<boxes, notes, warehouses, departments, employees, requests>>

\* a delete_box that does not count the service notes
DeleteBoxOutcome_noNotesCheck(b) ==
    IF b \notin DOMAIN boxes THEN "NotFound" ELSE "ok"

\* the checks of delete_box
DeleteBoxOutcome(b) ==
    IF b \notin DOMAIN boxes THEN "NotFound"
    ELSE IF NotesOfBox(b) # {} THEN "ReferentialConflict"
    ELSE "ok"

LocationsIn(bs) == {l \in DOMAIN locations : locations[l].box_id \in bs}

\* db.delete(box) takes the box's locations with it (cascade="all, delete-orphan")
delete_box(b) ==
    LET res == DeleteBoxOutcome(b) IN
    /\ response' = Answer("delete_box", res)
    /\ IF res # "ok"
       THEN UNCHANGED <<boxes, locations>>
       ELSE /\ boxes' = Without(boxes, {b})
            /\ locations' = Without(locations, LocationsIn({b}))
    /\ UNCHANGED <<cartridges, notes, movements, warehouses, departments, employees, requests>>

\* a delete_warehouse that does not look at the notes of its boxes
DeleteWarehouseOutcome_noNotesCheck(w) ==
    IF w \notin warehouses THEN "NotFound" ELSE "ok"

\* the checks of delete_warehouse: no box of the warehouse is used in a service note
DeleteWarehouseOutcome(w) ==
    IF w \notin warehouses THEN "NotFound"
    ELSE IF \E b \in BoxesOfWarehouse(w) : NotesOfBox(b) # {} THEN "ReferentialConflict"
    ELSE "ok"

\* db.delete(warehouse) takes its boxes, and their locations, with it
delete_warehouse(w) ==
    LET res == DeleteWarehouseOutcome(w) IN
    /\ response' = Answer("delete_warehouse", res)
    /\ IF res # "ok"
       THEN UNCHANGED <<warehouses, boxes, locations>>
       ELSE /\ warehouses' = warehouses \ {w}
            /\ boxes' = Without(boxes, BoxesOfWarehouse(w))
            /\ locations' = Without(locations, LocationsIn(BoxesOfWarehouse(w)))
    /\ UNCHANGED <<cartridges, notes, movements, departments, employees, requests>>

\* ---- departments and employees ----
MaxStaff == 2
StaffIds == 1..MaxStaff

create_department ==
    /\ Cardinality(departments) < MaxDepartments
    /\ departments' = departments \cup {NextKey(departments)}
    /\ response' = Answer("create_department", "ok")
    /\ UNCHANGED <<cartridges, boxes, locations, notes, movements, warehouses, employees, requests>>

\* department_id is stored as sent: no handler looks the department up
create_employee(d) ==
    /\ Cardinality(DOMAIN employees) < MaxStaff
    /\ employees' = employees @@ (NextId(employees) :> [department_id |-> d])
    /\ response' = Answer("create_employee", "ok")
    /\ UNCHANGED <<cartridges, boxes, locations, notes, movements, warehouses, departments, requests>>

EmployeesOf(d) == {e \in DOMAIN employees : employees[e].department_id = d}

\* a delete_department that does not count the employees
DeleteDepartmentOutcome_noEmployeesCheck(d) ==
    IF d \notin departments THEN "NotFound" ELSE "ok"

\* the checks of delete_department
DeleteDepartmentOutcome(d) ==
    IF d \notin departments THEN "NotFound"
    ELSE IF EmployeesOf(d) # {} THEN "ReferentialConflict"
    ELSE "ok"

\* db.delete(department) takes its employees with it (cascade="all, delete-orphan")
delete_department(d) ==
    LET res == DeleteDepartmentOutcome(d) IN
    /\ response' = Answer("delete_department", res)
    /\ IF res # "ok"
       THEN UNCHANGED <<departments, employees>>
       ELSE /\ departments' = departments \ {d}
            /\ employees' = Without(employees, EmployeesOf(d))
    /\ UNCHANGED <<cartridges, boxes, locations, notes, movements, warehouses, requests>>

\* author_id is None on every note create_service_note builds
NotesOfEmployee(e) == {n \in DOMAIN notes : notes[n].recipient_id = e}

\* a delete_employee that does not count the service notes
DeleteEmployeeOutcome_noNotesCheck(e) ==
    IF e \notin DOMAIN employees THEN "NotFound" ELSE "ok"

\* the checks of delete_employee
DeleteEmployeeOutcome(e) ==
    IF e \notin DOMAIN employees THEN "NotFound"
    ELSE IF NotesOfEmployee(e) # {} THEN "ReferentialConflict"
    ELSE "ok"

\* no handler sets CartridgeLocation.employee_id, so clearing it changes no row
delete_employee(e) ==
    LET res == DeleteEmployeeOutcome(e) IN
    /\ response' = Answer("delete_employee", res)
    /\ employees' = IF res = "ok" THEN Without(employees, {e}) ELSE employees
    /\ UNCHANGED <<cartridges, boxes, locations, notes, movements, warehouses, departments, requests>>

\* the ledger is followed for MaxCartridges cartridges
FewCartridges == Cardinality(DOMAIN cartridges') <= MaxCartridges

Catalog ==
    \/ \E qty \in InitialQuantities : create_cartridge(qty) /\ FewCartridges
    \/ \E c \in CartridgeIds, add_qty \in AddQuantities : edit_cartridge(c, add_qty)
    \/ \E w \in WarehouseIds, capacity \in Capacities : create_box(w, capacity)
    \/ \E b \in BoxIds, w \in WarehouseIds, capacity \in Capacities : edit_box(b, w, capacity)

\* the ledger handlers and the cartridge and box forms write no warehouse, department or employee
NoStaff == UNCHANGED <<warehouses, departments, employees>>

\* one client: every request is answered before the next one is sent
Sequential == UNCHANGED requests

\* the callers that send any integer are followed for MaxMovesAny ledger operations
Shallow == Len(movements') <= MaxMovesAny

Next ==
    \/ Catalog /\ Forget /\ NoStaff /\ Sequential
    \/ \E c \in CartridgeIds, b \in BoxIds, q \in Quantities :
          add_cartridge_to_stock(c, b, q) /\ Forget /\ NoStaff /\ Sequential /\ Shallow
    \/ \E l \in LocationIds : remove_one_from_location(l) /\ Forget /\ NoStaff /\ Sequential /\ Shallow
    \/ \E r \in EmployeeIds, c \in CartridgeIds, q \in Quantities :
          create_service_note(r, c, q) /\ NoStaff /\ Sequential /\ Shallow
    \/ \E n \in NoteIds : return_cartridge(n) /\ NoStaff /\ Sequential /\ Shallow

Spec == Init /\ [][Next]_vars

\* the same handlers, called with positive quantities only
NextValid ==
    \/ Catalog /\ Forget /\ NoStaff /\ Sequential
    \/ \E c \in CartridgeIds, b \in BoxIds, q \in PositiveQuantities :
          add_cartridge_to_stock(c, b, q) /\ Forget /\ NoStaff /\ Sequential
    \/ \E l \in LocationIds : remove_one_from_location(l) /\ Forget /\ NoStaff /\ Sequential
    \/ \E r \in EmployeeIds, c \in CartridgeIds, q \in PositiveQuantities :
          create_service_note(r, c, q) /\ NoStaff /\ Sequential
    \/ \E n \in NoteIds : return_cartridge(n) /\ NoStaff /\ Sequential

SpecValid == Init /\ [][NextValid]_vars

\* New Year: datetime.now() is local time and datetime.utcnow() is UTC, so one of
\* the two years turns first (which one is the server's time zone) and the other follows
NewYear ==
    /\ \/ /\ clock.local = clock.utc
          /\ clock.utc < MaxYear
          /\ \/ clock' = [clock EXCEPT !.local = @ + 1]
             \/ clock' = [clock EXCEPT !.utc = @ + 1]
       \/ /\ clock.local < clock.utc
          /\ clock' = [clock EXCEPT !.local = clock.utc]
       \/ /\ clock.utc < clock.local
          /\ clock' = [clock EXCEPT !.utc = clock.local]
    /\ UNCHANGED <<cartridges, boxes, locations, notes, movements, response, last_issue, last_return>>
    /\ NoStaff /\ Sequential

\* stock is received and issued while the years go by
NextYears ==
    \/ \E qty \in InitialQuantities : create_cartridge(qty) /\ FewCartridges /\ Forget /\ NoStaff /\ Sequential
    \/ \E w \in WarehouseIds, capacity \in Capacities : create_box(w, capacity) /\ Forget /\ NoStaff /\ Sequential
    \/ \E c \in CartridgeIds, b \in BoxIds, q \in PositiveQuantities :
          add_cartridge_to_stock(c, b, q) /\ Forget /\ NoStaff /\ Sequential
    \/ \E r \in EmployeeIds, c \in CartridgeIds, q \in PositiveQuantities :
          create_service_note(r, c, q) /\ NoStaff /\ Sequential
    \/ NewYear

SpecYears == Init /\ [][NextYears]_vars

\* ---- the catalog with its delete forms ----
MaxCatalogCartridges == 2
MaxCatalogMoves == 3
CatalogCartridgeIds == 1..MaxCatalogCartridges
CatalogQuantities == 0..1

\* the catalog is followed for MaxCatalogCartridges cartridges and MaxCatalogMoves ledger operations
Brief ==
    /\ Cardinality(DOMAIN cartridges') <= MaxCatalogCartridges
    /\ Len(movements') <= MaxCatalogMoves

NextCatalog ==
    \/ \E qty \in CatalogQuantities : create_cartridge(qty) /\ Forget /\ NoStaff /\ Sequential /\ Brief
    \/ create_warehouse /\ Forget
    \/ \E w \in WarehouseIds : create_box(w, MaxCap) /\ Forget /\ NoStaff /\ Sequential
    \/ \E c \in CatalogCartridgeIds, b \in BoxIds, q \in CatalogQuantities :
          add_cartridge_to_stock(c, b, q) /\ Forget /\ NoStaff /\ Sequential /\ Brief
    \/ \E r \in EmployeeIds, c \in CatalogCartridgeIds, q \in CatalogQuantities :
          create_service_note(r, c, q) /\ NoStaff /\ Sequential /\ Brief
    \/ \E n \in NoteIds : return_cartridge(n) /\ NoStaff /\ Sequential /\ Brief
    \/ \E c \in CatalogCartridgeIds : delete_cartridge(c) /\ Forget
    \/ \E b \in BoxIds : delete_box(b) /\ Forget
    \/ \E w \in WarehouseIds : delete_warehouse(w) /\ Forget

SpecCatalog == Init /\ [][NextCatalog]_vars

\* ---- the staff tables next to the ledger ----
MaxStaffMoves == 3

NextStaff ==
    \/ create_department /\ Forget
    \/ \E d \in DepartmentRefs : create_employee(d) /\ Forget
    \/ \E d \in DepartmentIds : delete_department(d) /\ Forget
    \/ \E e \in StaffIds : delete_employee(e) /\ Forget
    \/ \E qty \in PositiveQuantities : create_cartridge(qty) /\ FewCartridges /\ Forget /\ NoStaff /\ Sequential
    \/ \E w \in WarehouseIds : create_box(w, MaxCap) /\ Forget /\ NoStaff /\ Sequential
    \/ \E c \in CartridgeIds, b \in BoxIds, q \in PositiveQuantities :
          add_cartridge_to_stock(c, b, q) /\ Forget /\ NoStaff /\ Sequential /\ Len(movements') <= MaxStaffMoves
    \/ \E r \in StaffIds, c \in CartridgeIds, q \in PositiveQuantities :
          create_service_note(r, c, q) /\ NoStaff /\ Sequential /\ Len(movements') <= MaxStaffMoves

SpecStaff == Init /\ [][NextStaff]_vars

\* ---- two clients at once ----
\* the stock is set up before the two clients send their requests
Quiet == requests = NoRequests

NextConcurrent ==
    \/ \E qty \in PositiveQuantities :
          Quiet /\ create_cartridge(qty) /\ FewCartridges /\ Forget /\ NoStaff /\ Sequential
    \/ \E w \in WarehouseIds : Quiet /\ create_box(w, MaxCap) /\ Forget /\ NoStaff /\ Sequential
    \/ \E c \in CartridgeIds, b \in BoxIds, q \in PositiveQuantities :
          /\ Quiet
          /\ add_cartridge_to_stock(c, b, q) /\ Forget /\ NoStaff /\ Sequential
          /\ Len(movements') <= MaxSetupMoves
    \/ \E r \in EmployeeIds, c \in CartridgeIds, q \in PositiveQuantities :
          Arrive("create_service_note", r, c, 0, q) /\ Forget /\ NoStaff
    \/ \E c \in CartridgeIds, b \in BoxIds, q \in PositiveQuantities :
          Arrive("add_cartridge_to_stock", 0, c, b, q) /\ Forget /\ NoStaff
    \/ \E k \in RequestIds : Serve(k) /\ NoStaff

SpecConcurrent == Init /\ [][NextConcurrent]_vars

\* ---- claims ----
Received == response = Answer("add_cartridge_to_stock", "ok")

\* C1: a Receive(c, b, q) whose preconditions hold (q <= available stock of c,
\* q <= free capacity of b) raises b's current_count by exactly q and the sum of
\* c's location quantities by exactly q.
C1_ReceiveAddsExactly ==
    [][response'.op = "add_cartridge_to_stock" =>
       \A c \in CartridgeIds, b \in BoxIds, q \in Quantities :
          (/\ c \in DOMAIN cartridges
           /\ b \in DOMAIN boxes
           /\ q <= cartridges[c].total_quantity - Distributed(c)
           /\ q <= boxes[b].capacity - boxes[b].current_count
           /\ add_cartridge_to_stock(c, b, q))
          => /\ boxes'[b].current_count = boxes[b].current_count + q
             /\ Distributed(c)' = Distributed(c) + q]_vars

\* a Receive of two units was accepted into a box that already held a row
C1_Witness ==
    /\ Received
    /\ \E b \in DOMAIN boxes : boxes[b].current_count >= 2
    /\ Len(movements) >= 2

\* C2 as stated: a Receive (of an existing cartridge) with a quantity above the
\* box's free capacity answers BoxFull and leaves the box, the locations and the
\* movement log unchanged.
C2_Original ==
    [][response'.op = "add_cartridge_to_stock" =>
       \A c \in CartridgeIds, b \in BoxIds, q \in Quantities :
          (/\ c \in DOMAIN cartridges
           /\ b \in DOMAIN boxes
           /\ q > boxes[b].capacity - boxes[b].current_count
           /\ add_cartridge_to_stock(c, b, q))
          => /\ response'.res = "BoxFull"
             /\ UNCHANGED <<boxes, locations, movements>>]_vars

\* C2 amended: a Receive with a quantity above the box's free capacity is refused
\* and leaves the box, the locations and the movement log unchanged; the answer is
\* BoxFull when the cartridge exists and the quantity is within its available stock.
C2_BoxFullRefused ==
    [][response'.op = "add_cartridge_to_stock" =>
       \A c \in CartridgeIds, b \in BoxIds, q \in Quantities :
          (/\ b \in DOMAIN boxes
           /\ q > boxes[b].capacity - boxes[b].current_count
           /\ add_cartridge_to_stock(c, b, q))
          => /\ response'.res # "ok"
             /\ UNCHANGED <<boxes, locations, movements>>
             /\ (c \in DOMAIN cartridges /\ q <= cartridges[c].total_quantity - Distributed(c))
                   => response'.res = "BoxFull"]_vars

\* a Receive was answered BoxFull by a box that is partly filled
C2_Witness ==
    /\ response = Answer("add_cartridge_to_stock", "BoxFull")
    /\ \E b \in DOMAIN boxes : boxes[b].current_count > 0

\* C3: a Receive with a quantity above the cartridge's available stock answers
\* InsufficientStock and changes no location, box or movement row.
C3_InsufficientStockRefused ==
    [][response'.op = "add_cartridge_to_stock" =>
       \A c \in CartridgeIds, b \in BoxIds, q \in Quantities :
          (/\ c \in DOMAIN cartridges
           /\ q > cartridges[c].total_quantity - Distributed(c)
           /\ add_cartridge_to_stock(c, b, q))
          => /\ response'.res = "InsufficientStock"
             /\ UNCHANGED <<boxes, locations, movements, cartridges, notes>>]_vars

\* a Receive was answered InsufficientStock while part of the stock is in a box
C3_Witness ==
    /\ response = Answer("add_cartridge_to_stock", "InsufficientStock")
    /\ \E l \in DOMAIN locations : locations[l].quantity > 0

\* C4: a Receive with quantity zero or negative is rejected and changes no location
\* quantity and no box current_count.
C4_NonPositiveRejected ==
    [][response'.op = "add_cartridge_to_stock" =>
       \A c \in CartridgeIds, b \in BoxIds, q \in Quantities :
          (q <= 0 /\ add_cartridge_to_stock(c, b, q))
          => /\ response'.res # "ok"
             /\ UNCHANGED <<boxes, locations>>]_vars

\* C5: every box satisfies 0 <= current_count <= capacity.
C5_BoxWithinCapacity ==
    \A b \in DOMAIN boxes :
        /\ 0 <= boxes[b].current_count
        /\ boxes[b].current_count <= boxes[b].capacity

\* C6: right after a successful Receive the target box's current_count is not
\* negative and does not exceed its capacity.
C6_ReceiveKeepsBoxInRange ==
    [][response'.op = "add_cartridge_to_stock" =>
       \A c \in CartridgeIds, b \in BoxIds, q \in Quantities :
          (add_cartridge_to_stock(c, b, q) /\ response'.res = "ok")
          => /\ 0 <= boxes'[b].current_count
             /\ boxes'[b].current_count <= boxes'[b].capacity]_vars

InStockRowsIn(b) ==
    {l \in DOMAIN locations : locations[l].box_id = b /\ locations[l].status = "in_stock"}

\* C7: each box's current_count equals the sum of the quantities of the in-stock
\* location rows in that box.
C7_CountIsInStockSum ==
    \A b \in DOMAIN boxes :
        boxes[b].current_count = SumQuantity(locations, InStockRowsIn(b))

\* C8: the sum of a cartridge's location quantities never exceeds its
\* total_quantity (the undistributed count is never negative).
C8_DistributedWithinTotal ==
    \A c \in DOMAIN cartridges : Distributed(c) <= cartridges[c].total_quantity

\* C9: every stored location row has quantity >= 1.
C9_NoEmptyRow ==
    \A l \in DOMAIN locations : locations[l].quantity >= 1

\* C10: at most one in-stock location row exists for each (cartridge, box) pair.
C10_OneInStockRowPerPair ==
    \A l, m \in DOMAIN locations :
        (/\ locations[l].status = "in_stock"
         /\ locations[m].status = "in_stock"
         /\ locations[l].cartridge_id = locations[m].cartridge_id
         /\ locations[l].box_id = locations[m].box_id)
        => l = m

\* the latest Issue has been followed at once by the Return of its note
IssueThenReturn == last_issue.note # 0 /\ last_issue.returned

\* C11: after an Issue immediately followed by the Return of the note it created,
\* the source box's current_count and the source location's quantity equal their
\* values before the Issue.
C11_IssueReturnRestores ==
    IssueThenReturn =>
        /\ last_issue.location \in DOMAIN locations
        /\ locations[last_issue.location].quantity = last_issue.quantity
        /\ boxes[last_issue.box].current_count = last_issue.current_count

\* C12: Return leaves cartridge.total_quantity as it finds it, so that after an Issue
\* of q followed by the Return of its note the total is q below its value before the Issue.
C12_ReturnKeepsTotal ==
    [][response'.op = "return_cartridge" =>
       /\ cartridges' = cartridges
       /\ IssueThenReturn' =>
             LET note == notes'[last_issue'.note] IN
             cartridges'[note.cartridge_id].total_quantity = last_issue'.total - note.quantity]_vars

C12_Witness ==
    /\ IssueThenReturn
    /\ response = Answer("return_cartridge", "ok")
    /\ notes[last_issue.note].status = "returned"
    /\ notes[last_issue.note].quantity = 2
    /\ cartridges[notes[last_issue.note].cartridge_id].total_quantity = last_issue.total - 2

\* C13: a successful Issue of q decreases the chosen location's quantity, the chosen
\* box's current_count and the cartridge's total_quantity by q each, and adds exactly
\* one note, with status issued, and exactly one movement.
C13_IssueDecreasesByQ ==
    [][response' = Answer("create_service_note", "ok") =>
       LET l == last_issue'.location
           b == locations[l].box_id
           c == locations[l].cartridge_id
           q == notes'[Len(notes')].quantity
       IN  /\ locations'[l].quantity = locations[l].quantity - q
           /\ boxes'[b].current_count = boxes[b].current_count - q
           /\ cartridges'[c].total_quantity = cartridges[c].total_quantity - q
           /\ Len(notes') = Len(notes) + 1
           /\ notes'[Len(notes')].status = "issued"
           /\ Len(movements') = Len(movements) + 1]_vars

\* the in-stock rows of cartridge c
InStockOf(c) == {l \in LocationsOf(c) : locations[l].status = "in_stock"}

\* C14: a successful Issue decrements one location only: an in-stock location of the
\* requested cartridge whose quantity is the largest among the in-stock locations of
\* that cartridge; the quantity of every other location is unchanged.
C14_IssueFromLargest ==
    [][response' = Answer("create_service_note", "ok") =>
       LET l == last_issue'.location
           c == notes'[Len(notes')].cartridge_id
           q == notes'[Len(notes')].quantity
       IN  /\ l \in InStockOf(c)
           /\ \A m \in InStockOf(c) : locations[m].quantity <= locations[l].quantity
           /\ locations'[l].quantity = locations[l].quantity - q
           /\ DOMAIN locations' = DOMAIN locations
           /\ \A m \in DOMAIN locations \ {l} : locations'[m].quantity = locations[m].quantity]_vars

\* the cartridge lay in two boxes in unequal quantities and the Issue drew from the fuller one
C14_Witness ==
    /\ response = Answer("create_service_note", "ok")
    /\ last_issue.note # 0
    /\ last_issue.quantity = 2
    /\ notes[last_issue.note].quantity = 1
    /\ locations[last_issue.location].quantity = 1
    /\ \E m \in DOMAIN locations :
          /\ m # last_issue.location
          /\ locations[m].box_id # last_issue.box
          /\ locations[m].status = "in_stock"
          /\ locations[m].quantity = 1

\* C15: Issue answers InsufficientStock when no single in-stock location of the cartridge
\* holds the requested quantity (whatever the locations hold together) or when
\* total_quantity is below the requested quantity, and the refusal creates or changes
\* no note, movement, location, box or cartridge.
C15_IssueRefused ==
    [][response'.op = "create_service_note" =>
       \A r \in EmployeeIds, c \in CartridgeIds, q \in Quantities :
          (/\ \/ \A l \in InStockOf(c) : locations[l].quantity < q
              \/ c \notin DOMAIN cartridges
              \/ cartridges[c].total_quantity < q
           /\ create_service_note(r, c, q))
          => /\ response'.res = "InsufficientStock"
             /\ UNCHANGED <<cartridges, boxes, locations, notes, movements>>]_vars

\* two boxes hold one unit each, the total is 2, and an Issue (of 2, the one request
\* this stock cannot serve from a single box) has just been refused
C15_Witness ==
    /\ response = Answer("create_service_note", "InsufficientStock")
    /\ \E c \in DOMAIN cartridges :
          /\ cartridges[c].total_quantity = 2
          /\ Cardinality(InStockOf(c)) = 2
          /\ \A l \in InStockOf(c) : locations[l].quantity = 1
          /\ \E l, m \in InStockOf(c) : locations[l].box_id # locations[m].box_id

\* C16: returned is terminal: a Return on a note whose status is already returned
\* changes neither the note nor any location quantity nor any box's current_count,
\* and no operation takes a note out of status returned.
C16_ReturnedIsTerminal ==
    [][/\ \A n \in DOMAIN notes :
             notes[n].status = "returned" => notes'[n].status = "returned"
       /\ response'.op = "return_cartridge" =>
             \A n \in DOMAIN notes :
                (notes[n].status = "returned" /\ return_cartridge(n))
                => /\ notes' = notes
                   /\ DOMAIN locations' = DOMAIN locations
                   /\ \A l \in DOMAIN locations : locations'[l].quantity = locations[l].quantity
                   /\ \A b \in DOMAIN boxes : boxes'[b].current_count = boxes[b].current_count]_vars

\* C17: Return is not idempotent: after two Returns of the same note in a row, the
\* quantity lying at the note's (cartridge, box) and the box's current_count are
\* 2 * note.quantity above their values before the first of the two.
C17_ReturnTwiceCreditsTwice ==
    (last_return.note # 0 /\ last_return.times = 2) =>
        LET note == notes[last_return.note] IN
        /\ SumQuantity(locations, ReturnRows(note.cartridge_id, note.box_id))
              = last_return.quantity + 2 * note.quantity
        /\ boxes[note.box_id].current_count = last_return.current_count + 2 * note.quantity

C17_Witness ==
    /\ last_return.note # 0
    /\ last_return.times = 2
    /\ response = Answer("return_cartridge", "ok")
    /\ notes[last_return.note].quantity = 1
    /\ boxes[notes[last_return.note].box_id].current_count = last_return.current_count + 2

\* C18: every note is created with status issued, no note ever has status requested,
\* and the only change of status any operation makes is from issued to returned.
C18_NoteStatusCycle ==
    [][/\ \A n \in DOMAIN notes' \ DOMAIN notes : notes'[n].status = "issued"
       /\ \A n \in DOMAIN notes' : notes'[n].status # "requested"
       /\ \A n \in DOMAIN notes \cap DOMAIN notes' :
             notes'[n].status # notes[n].status
             => notes[n].status = "issued" /\ notes'[n].status = "returned"]_vars

\* one note has been returned and a later one has just been created
C18_Witness ==
    /\ response = Answer("create_service_note", "ok")
    /\ Len(notes) = 2
    /\ notes[1].status = "returned"
    /\ notes[2].status = "issued"

\* the notes whose number carries the year of note n, and those stored under its year
NumberedLike(n) == {m \in DOMAIN notes : notes[m].note_number.year = notes[n].note_number.year}
StoredLike(n) == {m \in DOMAIN notes : notes[m].created_year = notes[n].created_year}

\* the position of note n, in order of creation, among the notes of S
RankIn(n, S) == Cardinality({m \in S : m <= n})

\* C19: note numbers are sequential and unique per calendar year: the k-th note of a
\* year carries that year and the suffix k padded to 3 digits, whatever was created in
\* other years, and no two notes carry the same number. The year of a note is read
\* either as the year in its number or as the year of its created_date, the same
\* reading for all notes.
C19_SequentialPerYear ==
    /\ \A n, m \in DOMAIN notes : n # m => notes[n].note_number # notes[m].note_number
    /\ \/ \A n \in DOMAIN notes :
             notes[n].note_number.seq = Zfill(Str(RankIn(n, NumberedLike(n))), 3)
       \/ \A n \in DOMAIN notes :
             /\ notes[n].note_number.year = notes[n].created_year
             /\ notes[n].note_number.seq = Zfill(Str(RankIn(n, StoredLike(n))), 3)

\* C20: WithdrawOne removes exactly one unit: the sum of the cartridge's location
\* quantities drops by 1, the row is deleted when its quantity would reach 0 and is
\* kept otherwise, and the owning box's current_count drops by 1 unless it is 0 already.
C20_WithdrawOneUnit ==
    [][response' = Answer("remove_one_from_location", "ok") =>
       \A l \in DOMAIN locations :
          remove_one_from_location(l) =>
             LET c == locations[l].cartridge_id
                 b == locations[l].box_id
             IN  /\ Distributed(c)' = Distributed(c) - 1
                 /\ l \in DOMAIN locations' <=> locations[l].quantity - 1 # 0
                 /\ boxes'[b].current_count =
                       IF boxes[b].current_count = 0 THEN 0 ELSE boxes[b].current_count - 1]_vars

\* C21: a delete of a cartridge whose total_quantity is above 0, or that a service note
\* references, is refused and leaves the cartridges, the locations and the movement
\* rows as they were.
C21_CartridgeDeleteRefused ==
    [][response'.op = "delete_cartridge" =>
       \A c \in DOMAIN cartridges :
          (/\ \/ cartridges[c].total_quantity > 0
              \/ NotesOfCartridge(c) # {}
           /\ delete_cartridge(c))
          => /\ response'.res = "ReferentialConflict"
             /\ UNCHANGED <<cartridges, locations, movements>>]_vars

\* the delete of a cartridge that is down to 0 units, all of them issued on a note, was refused
C21_Witness ==
    /\ response = Answer("delete_cartridge", "ReferentialConflict")
    /\ \E c \in DOMAIN cartridges :
          /\ cartridges[c].total_quantity = 0
          /\ \E n \in NotesOfCartridge(c) : notes[n].quantity = 1
    /\ \A c \in DOMAIN cartridges : cartridges[c].total_quantity = 0

\* C22: a delete of a box that a service note references is refused, a delete of a
\* warehouse is refused while a service note references one of its boxes, and a refused
\* delete leaves every row as it was.
C22_BoxAndWarehouseDeleteRefused ==
    [][/\ response'.op = "delete_box" =>
             \A b \in DOMAIN boxes :
                (NotesOfBox(b) # {} /\ delete_box(b))
                => /\ response'.res = "ReferentialConflict"
                   /\ UNCHANGED <<cartridges, boxes, locations, notes, movements,
                                  warehouses, departments, employees>>
       /\ response'.op = "delete_warehouse" =>
             \A w \in warehouses :
                ((\E b \in BoxesOfWarehouse(w) : NotesOfBox(b) # {}) /\ delete_warehouse(w))
                => /\ response'.res = "ReferentialConflict"
                   /\ UNCHANGED <<cartridges, boxes, locations, notes, movements,
                                  warehouses, departments, employees>>]_vars

\* the delete of a warehouse was refused for a note on one of its boxes
C22_Witness ==
    /\ response = Answer("delete_warehouse", "ReferentialConflict")
    /\ \E w \in warehouses : \E b \in BoxesOfWarehouse(w) : NotesOfBox(b) # {}

\* C23: a delete of a department that still has employees linked to it answers
\* ReferentialConflict and leaves every department and employee row as it was.
C23_DepartmentDeleteRefused ==
    [][response'.op = "delete_department" =>
       \A d \in departments :
          (EmployeesOf(d) # {} /\ delete_department(d))
          => /\ response'.res = "ReferentialConflict"
             /\ UNCHANGED <<departments, employees>>]_vars

\* the delete of a department with two employees was refused
C23_Witness ==
    /\ response = Answer("delete_department", "ReferentialConflict")
    /\ \E d \in departments : Cardinality(EmployeesOf(d)) = 2

\* the movement rows of cartridge c in a log, in the order they were written
RowsOf(log, c) == LET Of(m) == m.cartridge_id = c IN SelectSeq(log, Of)

IsPrefix(s, t) == Len(s) <= Len(t) /\ SubSeq(t, 1, Len(s)) = s

\* C24: the movement log is append-only: no operation but the delete of a cartridge
\* updates or deletes a movement row, and that delete leaves the rows of every other
\* cartridge alone, so the rows of a live cartridge only grow.
C24_MovementsAppendOnly ==
    [][/\ response'.op # "delete_cartridge" => IsPrefix(movements, movements')
       /\ \A c \in DOMAIN cartridges \cap DOMAIN cartridges' :
             IsPrefix(RowsOf(movements, c), RowsOf(movements', c))]_vars

\* two location rows were written, each with its movement row; a cartridge has just been
\* deleted, and what is left is the other cartridge's location and its movement row
C24_Witness ==
    /\ response = Answer("delete_cartridge", "ok")
    /\ DOMAIN locations = {2}
    /\ Len(movements) = 1
    /\ movements[1].cartridge_id \in DOMAIN cartridges
    /\ notes = <<>>

\* every accepted request has been answered
AllDone ==
    /\ Len(requests.inflight) = MaxRequests
    /\ \A k \in DOMAIN requests.inflight : requests.inflight[k].pc = "done"

\* the units the answered requests of one handler moved
Moved(op) ==
    LET ok == {k \in DOMAIN requests.inflight :
                  requests.inflight[k].op = op /\ requests.inflight[k].res = "ok"}
    IN  SumOf([k \in DOMAIN requests.inflight |-> requests.inflight[k].q], ok)

\* C25: requests that overlap lose no update: once two overlapping Issue or Receive
\* requests are answered, total_quantity, current_count and the location quantities
\* reflect every request that was accepted, and no more is issued than was on stock
\* (no location is overdrawn).
C25_NoLostUpdate ==
    AllDone =>
        /\ Stock.total = requests.before.total - Moved("create_service_note")
        /\ Stock.count = requests.before.count - Moved("create_service_note")
                            + Moved("add_cartridge_to_stock")
        /\ Stock.quantity = requests.before.quantity - Moved("create_service_note")
                               + Moved("add_cartridge_to_stock")
        /\ \A l \in DOMAIN locations : locations[l].quantity >= 0

\* stock for one Issue only, two Issue requests overlapped: one was served, one refused
C25_Witness ==
    /\ AllDone
    /\ requests.before.quantity = 1
    /\ requests.before.total = 2
    /\ \A k \in DOMAIN requests.inflight :
          requests.inflight[k].op = "create_service_note" /\ requests.inflight[k].q = 1
    /\ \E k, j \in DOMAIN requests.inflight :
          /\ requests.inflight[k].res = "ok"
          /\ requests.inflight[j].res = "InsufficientStock"
    /\ Stock.total = 1

\* the units the notes of cartridge c record, issued or returned
IssuedOn(c) ==
    SumOf([n \in DOMAIN notes |-> notes[n].quantity], NotesOfCartridge(c))

\* C26: for each cartridge, initial_quantity - total_quantity equals the sum of the
\* quantities of all its service notes, issued or returned, and total_quantity never
\* exceeds initial_quantity.
C26_Conservation ==
    \A c \in DOMAIN cartridges :
       /\ cartridges[c].initial_quantity - cartridges[c].total_quantity = IssuedOn(c)
       /\ cartridges[c].total_quantity <= cartridges[c].initial_quantity

\* C27: a successful Issue never increases stock: whatever quantity was accepted, the
\* chosen location's quantity, its box's current_count and the cartridge's
\* total_quantity are each at most what they were, and total_quantity is not negative.
C27_IssueNeverIncreases ==
    [][response' = Answer("create_service_note", "ok") =>
       LET l == last_issue'.location
           b == locations[l].box_id
           c == locations[l].cartridge_id
       IN  /\ locations'[l].quantity <= locations[l].quantity
           /\ b \in DOMAIN boxes => boxes'[b].current_count <= boxes[b].current_count
           /\ cartridges'[c].total_quantity <= cartridges[c].total_quantity
           /\ cartridges'[c].total_quantity >= 0]_vars

\* C28: Receive and WithdrawOne only move units between the undistributed pool and the
\* boxes: whether they succeed or refuse, both leave every cartridge's total_quantity
\* and initial_quantity and every service note as they were.
C28_ReceiveWithdrawKeepTotals ==
    [][response'.op \in {"add_cartridge_to_stock", "remove_one_from_location"} =>
       /\ cartridges' = cartridges
       /\ notes' = notes]_vars

\* a unit was received into a box and then withdrawn from it, with a note on file
C28_Witness ==
    /\ response = Answer("remove_one_from_location", "ok")
    /\ Len(movements) >= 2
    /\ movements[Len(movements)].to_location = <<"undistributed">>
    /\ movements[Len(movements) - 1].from_location = <<"intake">>
    /\ notes # <<>>
    /\ \E c \in DOMAIN cartridges : cartridges[c].total_quantity > 0

\* C29: in every state reached through the create forms, Issue, Return and the delete
\* forms, the cartridge_id and the box_id of every service note are the keys of a
\* cartridge and of a box that still exist.
C29_NotesReferToRows ==
    \A n \in DOMAIN notes :
       /\ notes[n].cartridge_id \in DOMAIN cartridges
       /\ notes[n].box_id \in DOMAIN boxes

\* a box was deleted while a note on another box was on file
C29_Witness ==
    /\ response = Answer("delete_box", "ok")
    /\ notes # <<>>
    /\ \A n \in DOMAIN notes : notes[n].box_id \in DOMAIN boxes

\* C30: the recipient of every service note is an employee that exists: an Issue whose
\* recipient id resolves to no employee creates no note and moves no stock, and an
\* employee a note references cannot be deleted.
C30_RecipientsExist ==
    \A n \in DOMAIN notes : notes[n].recipient_id \in DOMAIN employees

\* the step wrote one movement row, for cartridge c, after the rows already in the log
LoggedOne(c) ==
    /\ Len(movements') = Len(movements) + 1
    /\ SubSeq(movements', 1, Len(movements)) = movements
    /\ movements'[Len(movements')].cartridge_id = c
    /\ Len(RowsOf(movements', c)) = Len(RowsOf(movements, c)) + 1

\* the rows an Issue of cartridge c wrote: the ones that lead to a recipient
IssueRowsOf(log, c) ==
    LET ToRecipient(m) == m.cartridge_id = c /\ m.to_location[1] \in {"employee", "issued"}
    IN  SelectSeq(log, ToRecipient)

\* C31: every successful Receive, WithdrawOne, Issue and Return appends exactly one
\* movement row, for the cartridge it worked on, and every refused or not-found one
\* appends none, so the rows of a cartridge count the successful ledger operations on
\* it (its Issue rows are as many as its service notes).
C31_OneMovementPerOperation ==
    [][/\ response'.op = "add_cartridge_to_stock" =>
             \A c \in CartridgeIds, b \in BoxIds, q \in Quantities :
                add_cartridge_to_stock(c, b, q) =>
                   IF response'.res = "ok" THEN LoggedOne(c) ELSE movements' = movements
       /\ response'.op = "remove_one_from_location" =>
             \A l \in LocationIds :
                remove_one_from_location(l) =>
                   IF response'.res = "ok" THEN LoggedOne(locations[l].cartridge_id)
                   ELSE movements' = movements
       /\ response'.op = "create_service_note" =>
             \A r \in EmployeeIds, c \in CartridgeIds, q \in Quantities :
                create_service_note(r, c, q) =>
                   IF response'.res = "ok" THEN LoggedOne(c) ELSE movements' = movements
       /\ response'.op = "return_cartridge" =>
             \A n \in NoteIds :
                return_cartridge(n) =>
                   IF response'.res = "ok" THEN LoggedOne(notes[n].cartridge_id)
                   ELSE movements' = movements
       /\ \A c \in DOMAIN cartridges' :
             Len(IssueRowsOf(movements', c)) = Cardinality(NotesOfCartridge(c)')]_vars

\* the log holds a Receive, an Issue, a Return and a WithdrawOne of one cartridge, and
\* the request just answered was refused
C31_Witness ==
    /\ response.res \in {"InsufficientStock", "BoxFull", "NotFound"}
    /\ \E c \in DOMAIN cartridges :
          /\ Len(RowsOf(movements, c)) >= 4
          /\ \E i, j, k, m \in DOMAIN movements :
                /\ movements[i].from_location = <<"intake">>
                /\ movements[j].to_location[1] \in {"employee", "issued"}
                /\ movements[k].from_location = <<"in_use">>
                /\ movements[m].to_location = <<"undistributed">>

====
